---- MODULE Spec2Model ----
(***************************************************************************)
(* CheckAFInfo (volatility/plugins/linux/check_afinfo.py): the plugin that *)
(* verifies the operation function pointers of the network protocols'      *)
(* seq_afinfo tables.  render calls CreateChecks and consumes the          *)
(* generator check_functions, which resolves each global variable and      *)
(* consumes the generator check_members over it.                           *)
(*                                                                         *)
(* The kernel image is an input: a symbol or a struct member is drawn the  *)
(* first time the plugin looks at it and is fixed from then on, so a       *)
(* second scan reads the same image.                                       *)
(***************************************************************************)
EXTENDS Integers, Sequences, FiniteSets, TLC

VARIABLES
    pc,         \* "start" | "var" | "member" | "done" | "error"
    err,        \* the exception that ended the scan, or "none"
    run,        \* 1 for the first call of render, 2 for the second
    checks,     \* what CreateChecks returned
    ci,         \* index of the current check in checks
    vi,         \* index of the current variable in check["global_vars"]
    mi,         \* index of the current member in check["members"]
    var_ptr,    \* what get_constant_object returned for the current variable
    findings,   \* the tuples check_functions has yielded to render
    results,    \* the tuples check_members has yielded to check_functions
    lookups,    \* the addresses handed to module_plugin.find_module
    visited,    \* the <<ci, vi, mi>> the member loop has been entered for
    profile,    \* the struct layout: record type name -> member names
    modules,    \* the module list behind module_plugin
    symtab,     \* global symbols looked at so far
    mem,        \* struct members looked at so far
    prev        \* what the first scan left, once the second has begun

vars == <<pc, err, run, checks, ci, vi, mi, var_ptr, findings, results,
          lookups, visited, profile, modules, symtab, mem, prev>>

(***************************** bounds **************************************)

\* Code addresses are 1..MaxAddr; 0 is the null pointer.
MaxAddr == 2

\* The module list holds at most this many modules.
MaxModules == 2

\* At most this many things of one image are not a present symbol or a
\* null member (a missing symbol, an absent member, a faulting read, a
\* non-null pointer).
MaxIrregular == 1

(************************* the struct layout *******************************)

FileOperationsMembers == <<"read", "open">>

SeqOperationsMembers == <<"show">>

\* A profile maps the record types it has to their member names, in the
\* order of the mapping's keys.
Profiles ==
    { [t \in T |-> IF t = "file_operations" THEN FileOperationsMembers
                                             ELSE SeqOperationsMembers] :
      T \in SUBSET {"file_operations", "seq_operations"} }

has_type(p, name) == name \in DOMAIN p

\* ["prefix.%s" % x for x in members]
Prefixed(prefix, members) ==
    [i \in 1..Len(members) |-> prefix \o "." \o members[i]]

\* The two checks of CreateChecks, over a member list.
ChecksOver(members) ==
    << [name |-> "tcp",
        constant_type |-> "tcp_seq_afinfo",
        global_vars |-> <<"tcp6_seq_afinfo", "tcp4_seq_afinfo">>,
        members |-> members],
       [name |-> "udp",
        constant_type |-> "udp_seq_afinfo",
        global_vars |-> <<"udplite6_seq_afinfo", "udp6_seq_afinfo",
                          "udplite4_seq_afinfo", "udp4_seq_afinfo">>,
        members |-> members] >>

\* profile.file_operations() on a layout without that record type: the layout
\* lacks the record type the member list starts from, which is fatal.
TypeLookup(p, name) ==
    IF has_type(p, name) THEN [ok |-> TRUE, members |-> p[name]]
                         ELSE [ok |-> FALSE, members |-> <<>>]

\* The member list CreateChecks builds: members.keys() is a new list, which
\* the two extend calls lengthen.
MemberList(p) ==
    LET base == TypeLookup(p, "file_operations").members
        ops  == IF has_type(p, "seq_operations")
                THEN Prefixed("seq_ops", TypeLookup(p, "seq_operations").members)
                ELSE <<>>
        fops == IF has_type(p, "file_operations")
                THEN Prefixed("seq_fops", TypeLookup(p, "file_operations").members)
                ELSE <<>>
    IN  base \o ops \o fops

\* CreateChecks with the list aliased to the layout's own member list: the
\* extend calls then lengthen the layout.
CreateChecksAliased(p) ==
    IF ~TypeLookup(p, "file_operations").ok
    THEN [ok |-> FALSE, err |-> "TypeNotFound", checks |-> <<>>, profile |-> p]
    ELSE [ok |-> TRUE, err |-> "none", checks |-> ChecksOver(MemberList(p)),
          profile |-> [p EXCEPT !["file_operations"] = MemberList(p)]]

\* CreateChecks: the checks, and the layout as the call leaves it.
CreateChecksResult(p) ==
    IF ~TypeLookup(p, "file_operations").ok
    THEN [ok |-> FALSE, err |-> "TypeNotFound", checks |-> <<>>, profile |-> p]
    ELSE [ok |-> TRUE, err |-> "none", checks |-> ChecksOver(MemberList(p)),
          profile |-> p]

\* Every member path a scan of a full layout can ask a struct for.
AllPaths ==
    LET full == [t \in {"file_operations", "seq_operations"} |->
                   IF t = "file_operations" THEN FileOperationsMembers
                                            ELSE SeqOperationsMembers]
        l == MemberList(full)
    IN  {l[i] : i \in 1..Len(l)}

GlobalVars ==
    LET cs == ChecksOver(<<>>)
    IN  {cs[c].global_vars[v] : c \in {1}, v \in 1..2} \cup
        {cs[c].global_vars[v] : c \in {2}, v \in 1..4}

(*************************** the kernel image ******************************)

Unread  == [kind |-> "unread", v |-> 0]
Absent  == [kind |-> "absent", v |-> 0]  \* the struct has no such member
Fault   == [kind |-> "fault", v |-> 0]   \* the read fails with ReadError
Ptr(a)  == [kind |-> "ptr", v |-> a]     \* a pointer; 0 is null
Null    == Ptr(0)

CellValues == {Absent, Fault} \cup {Ptr(a) : a \in 0..MaxAddr}

SymbolValues == {"present", "missing_none", "missing_raise"}

\* The module lists: at most MaxModules ranges [start, end), sorted by start,
\* none overlapping another.
Ranges == {[start |-> s, end |-> e] : s \in 1..MaxAddr, e \in 2..(MaxAddr + 1)}

RECURSIVE ModuleListsOf(_)
ModuleListsOf(n) ==
    IF n = 0 THEN {<<>>}
    ELSE LET shorter == ModuleListsOf(n - 1)
         IN  shorter \cup
             { Append(l, [name |-> IF Len(l) = 0 THEN "tcp_mod" ELSE "udp_mod",
                          start |-> r.start, end |-> r.end]) :
               <<l, r>> \in
                 { lr \in shorter \X Ranges :
                     /\ Len(lr[1]) = n - 1
                     /\ lr[2].start < lr[2].end
                     /\ (Len(lr[1]) > 0 =>
                           lr[1][Len(lr[1])].end <= lr[2].start) } }

ModuleLists == ModuleListsOf(MaxModules)

Irregular ==
    Cardinality({s \in GlobalVars : symtab[s] \in {"missing_none", "missing_raise"}})
    + Cardinality({c \in GlobalVars \X AllPaths :
                     mem[c[1]][c[2]] \notin {Unread, Null}})

(************************* the external collaborators **********************)

\* module_plugin.find_module(addr): the module whose [start, end) holds addr,
\* or None.
RECURSIVE FindFrom(_, _, _)
FindFrom(mods, i, addr) ==
    IF i > Len(mods) THEN [found |-> FALSE, name |-> "None"]
    ELSE IF mods[i].start <= addr /\ addr < mods[i].end
         THEN [found |-> TRUE, name |-> mods[i].name]
         ELSE FindFrom(mods, i + 1, addr)

find_module(mods, addr) == FindFrom(mods, 1, addr)

\* struct.m(member): the member of the struct, or a NoneObject when the struct
\* is itself a NoneObject or has no such member.
m(struct, cell) == IF struct = "None" THEN Absent ELSE cell

\* profile.get_constant_object(variable, ...): the struct at the symbol; for a
\* symbol the kernel lacks, a NoneObject or a SymbolNotFound failure.
get_constant_object(variable, symbol) ==
    CASE symbol = "present"       -> [ok |-> TRUE, obj |-> variable]
      [] symbol = "missing_none"  -> [ok |-> TRUE, obj |-> "None"]
      [] symbol = "missing_raise" -> [ok |-> FALSE, obj |-> "None"]

(****************************** check_members ******************************)

\* check_members with the module compared the wrong way round.
check_member_inverted(struct, member, cell, mods) ==
    LET ptr == m(struct, cell)
    IN  IF ptr.kind = "fault"
        THEN [kind |-> "raise", err |-> "ReadError", member |-> member,
              func |-> 0, module |-> "None", lookups |-> <<>>]
        ELSE IF ptr.kind = "absent" \/ ptr.v = 0
        THEN [kind |-> "skip", err |-> "none", member |-> member,
              func |-> 0, module |-> "None", lookups |-> <<>>]
        ELSE LET module == find_module(mods, ptr.v)
             IN  [kind |-> "yield", err |-> "none", member |-> member,
                  func |-> ptr.v,
                  module |-> IF module.found THEN "Unknown" ELSE module.name,
                  lookups |-> <<ptr.v>>]

\* check_members with find_module called before the pointer is tested.
check_member_eager(struct, member, cell, mods) ==
    LET ptr == m(struct, cell)
    IN  IF ptr.kind = "fault"
        THEN [kind |-> "raise", err |-> "ReadError", member |-> member,
              func |-> 0, module |-> "None", lookups |-> <<>>]
        ELSE IF ptr.kind = "absent" \/ ptr.v = 0
        THEN [kind |-> "skip", err |-> "none", member |-> member,
              func |-> 0, module |-> "None", lookups |-> <<ptr.v>>]
        ELSE LET module == find_module(mods, ptr.v)
             IN  [kind |-> "yield", err |-> "none", member |-> member,
                  func |-> ptr.v,
                  module |-> IF module.found THEN module.name ELSE "Unknown",
                  lookups |-> <<ptr.v>>]

\* One turn of the loop of check_members: the member is skipped, or yielded
\* with its function and the name of its module, or the read fails.
check_member(struct, member, cell, mods) ==
    LET ptr == m(struct, cell)
    IN  IF ptr.kind = "fault"
        THEN [kind |-> "raise", err |-> "ReadError", member |-> member,
              func |-> 0, module |-> "None", lookups |-> <<>>]
        ELSE IF ptr.kind = "absent" \/ ptr.v = 0
        THEN [kind |-> "skip", err |-> "none", member |-> member,
              func |-> 0, module |-> "None", lookups |-> <<>>]
        ELSE LET module == find_module(mods, ptr.v)
             IN  [kind |-> "yield", err |-> "none", member |-> member,
                  func |-> ptr.v,
                  module |-> IF module.found THEN module.name ELSE "Unknown",
                  lookups |-> <<ptr.v>>]

(***************************** check_functions *****************************)

\* The names bound in check_functions when line 109 runs, and the module's
\* global names.
LocalNames(variable, r) ==
    [self |-> "self", checks |-> "checks", check |-> "check",
     variable |-> variable, var_ptr |-> "var_ptr", member |-> r.member,
     func |-> r.func, location1 |-> r.module]

GlobalNames == {"logging", "common", "CheckAFInfo"}

Bound(env, name) == name \in DOMAIN env \/ name \in GlobalNames

\* yield variable, member, func, location: the tuple is built from the four
\* names; a name bound nowhere raises NameError and nothing is yielded.
check_functions_yield(variable, r) ==
    LET env == LocalNames(variable, r)
    IN  IF /\ Bound(env, "variable") /\ Bound(env, "member")
           /\ Bound(env, "func") /\ Bound(env, "location")
        THEN [ok |-> TRUE, err |-> "none",
              finding |-> [variable |-> env["variable"], member |-> env["member"],
                           func |-> env["func"], location |-> env["location"]]]
        ELSE [ok |-> FALSE, err |-> "NameError",
              finding |-> [variable |-> "", member |-> "", func |-> 0,
                           location |-> ""]]

\* Where the loops of check_functions stand once the current variable is done.
AfterVariable(cs, c, v) ==
    IF v < Len(cs[c].global_vars) THEN [pc |-> "var", ci |-> c, vi |-> v + 1, mi |-> 0]
    ELSE IF c < Len(cs)           THEN [pc |-> "var", ci |-> c + 1, vi |-> 1, mi |-> 0]
    ELSE                               [pc |-> "done", ci |-> c, vi |-> v, mi |-> 0]

\* Where they stand once the current member is done.
AfterMember(cs, c, v, i) ==
    IF i < Len(cs[c].members) THEN [pc |-> "member", ci |-> c, vi |-> v, mi |-> i + 1]
    ELSE AfterVariable(cs, c, v)

(******************************* the state *********************************)

NoPrev == [set |-> FALSE, findings |-> <<>>, err |-> "none", checks |-> <<>>,
           visited |-> <<>>]

Init ==
    /\ pc = "start" /\ err = "none" /\ run = 1
    /\ checks = <<>> /\ ci = 0 /\ vi = 0 /\ mi = 0
    /\ var_ptr = "None"
    /\ findings = <<>> /\ results = <<>> /\ lookups = <<>> /\ visited = <<>>
    /\ profile \in Profiles
    /\ modules \in ModuleLists
    /\ symtab = [s \in GlobalVars |-> "unread"]
    /\ mem = [s \in GlobalVars |-> [p \in AllPaths |-> Unread]]
    /\ prev = NoPrev

\* render, line 117: checks = self.CreateChecks().
CreateChecks ==
    /\ pc = "start"
    /\ LET r == CreateChecksResult(profile)
       IN  /\ profile' = r.profile
           /\ checks' = r.checks
           /\ err' = r.err
           /\ IF r.ok THEN /\ pc' = "var" /\ ci' = 1 /\ vi' = 1 /\ mi' = 0
                      ELSE /\ pc' = "error" /\ UNCHANGED <<ci, vi, mi>>
    /\ UNCHANGED <<run, var_ptr, findings, results, lookups, visited, modules,
                   symtab, mem, prev>>

\* check_functions, lines 102-105: the next variable of the current check is
\* resolved.
GetConstantObjectFrom(symbols) ==
    /\ pc = "var"
    /\ LET variable == checks[ci].global_vars[vi]
       IN  \E symbol \in symbols :
             /\ IF symtab[variable] # "unread"
                THEN symbol = symtab[variable] /\ UNCHANGED symtab
                ELSE /\ symbol # "present" => Irregular < MaxIrregular
                     /\ symtab' = [symtab EXCEPT ![variable] = symbol]
             /\ LET r == get_constant_object(variable, symbol)
                    after == IF Len(checks[ci].members) = 0
                             THEN AfterVariable(checks, ci, vi)
                             ELSE [pc |-> "member", ci |-> ci, vi |-> vi, mi |-> 1]
                IN  IF r.ok
                    THEN /\ var_ptr' = r.obj
                         /\ pc' = after.pc /\ ci' = after.ci
                         /\ vi' = after.vi /\ mi' = after.mi
                         /\ UNCHANGED err
                    ELSE /\ pc' = "error" /\ err' = "SymbolNotFound"
                         /\ UNCHANGED <<var_ptr, ci, vi, mi>>
    /\ UNCHANGED <<run, checks, findings, results, lookups, visited, profile,
                   modules, mem, prev>>

\* check_members, lines 82-97, for the next member, and what check_functions
\* does with a tuple it is handed, lines 107-109.
CheckMemberFrom(cells) ==
    /\ pc = "member"
    /\ LET variable == checks[ci].global_vars[vi]
           member == checks[ci].members[mi]
           fresh == /\ var_ptr # "None" /\ member \in AllPaths
                    /\ mem[variable][member] = Unread
       IN  \E cell \in CellValues :
             /\ fresh => cell \in cells
             /\ IF fresh
                THEN /\ cell # Null => Irregular < MaxIrregular
                     /\ mem' = [mem EXCEPT ![variable][member] = cell]
                ELSE /\ cell = IF var_ptr = "None" \/ member \notin AllPaths
                               THEN Absent ELSE mem[variable][member]
                     /\ UNCHANGED mem
             /\ LET r == check_member(var_ptr, member, cell, modules)
                    y == check_functions_yield(variable, r)
                    after == AfterMember(checks, ci, vi, mi)
                    go == r.kind = "skip" \/ (r.kind = "yield" /\ y.ok)
                IN  /\ visited' = Append(visited, <<ci, vi, mi>>)
                    /\ lookups' = lookups \o r.lookups
                    /\ results' = IF r.kind = "yield"
                                  THEN Append(results,
                                         [variable |-> variable, member |-> r.member,
                                          func |-> r.func, module |-> r.module])
                                  ELSE results
                    /\ findings' = IF r.kind = "yield" /\ y.ok
                                   THEN Append(findings, y.finding)
                                   ELSE findings
                    /\ err' = IF r.kind = "raise" THEN r.err
                              ELSE IF r.kind = "yield" /\ ~y.ok THEN y.err
                              ELSE err
                    /\ pc' = IF go THEN after.pc ELSE "error"
                    /\ ci' = IF go THEN after.ci ELSE ci
                    /\ vi' = IF go THEN after.vi ELSE vi
                    /\ mi' = IF go THEN after.mi ELSE mi
    /\ UNCHANGED <<run, checks, var_ptr, profile, modules, symtab, prev>>

\* render is called a second time, over the same session.
Rescan ==
    /\ pc \in {"done", "error"}
    /\ run = 1
    /\ prev' = [set |-> TRUE, findings |-> findings, err |-> err,
                checks |-> checks, visited |-> visited]
    /\ run' = 2
    /\ pc' = "start" /\ err' = "none"
    /\ checks' = <<>> /\ ci' = 0 /\ vi' = 0 /\ mi' = 0
    /\ var_ptr' = "None"
    /\ findings' = <<>> /\ results' = <<>> /\ lookups' = <<>> /\ visited' = <<>>
    /\ UNCHANGED <<profile, modules, symtab, mem>>

GetConstantObject == GetConstantObjectFrom(SymbolValues)

CheckMember == CheckMemberFrom(CellValues)

Next == CreateChecks \/ GetConstantObject \/ CheckMember \/ Rescan

Spec == Init /\ [][Next]_vars

\* The scans over an image whose only irregularities are the expected ones: a
\* symbol the kernel lacks resolves to a NoneObject, a member is absent or
\* null, a pointer is non-null; no lookup raises and no read faults.
QuietSymbols == {"present", "missing_none"}

QuietCells == CellValues \ {Fault}

GetConstantObjectQuiet == GetConstantObjectFrom(QuietSymbols)

CheckMemberQuiet == CheckMemberFrom(QuietCells)

NextQuiet == CreateChecks \/ GetConstantObjectQuiet \/ CheckMemberQuiet \/ Rescan

SpecQuiet == Init /\ [][NextQuiet]_vars

ScanEnded == pc \in {"done", "error"}

(************************** what the claims speak of ***********************)

\* The <<check, variable, member>> index triples of the checks built.
Combos ==
    {<<c, v, i>> \in (1..2) \X (1..4) \X (1..(2 * Len(FileOperationsMembers)
                                              + Len(SeqOperationsMembers))) :
        /\ c <= Len(checks)
        /\ v <= Len(checks[c].global_vars)
        /\ i <= Len(checks[c].members)}

VarOf(t) == checks[t[1]].global_vars[t[2]]

MemberOf(t) == checks[t[1]].members[t[3]]

\* The member of the struct instance as the image has it, Unread when the scan
\* has not looked at it.
CellOf(t) ==
    IF symtab[VarOf(t)] # "present" \/ MemberOf(t) \notin AllPaths
    THEN IF symtab[VarOf(t)] = "unread" THEN Unread ELSE Absent
    ELSE mem[VarOf(t)][MemberOf(t)]

NonNull(cell) == cell.kind = "ptr" /\ cell.v # 0

Emitted(t) ==
    \E k \in 1..Len(findings) :
        findings[k].variable = VarOf(t) /\ findings[k].member = MemberOf(t)

Visits(t) == Cardinality({k \in 1..Len(visited) : visited[k] = t})

Before(a, b) ==
    \/ a[1] < b[1]
    \/ a[1] = b[1] /\ a[2] < b[2]
    \/ a[1] = b[1] /\ a[2] = b[2] /\ a[3] < b[3]

\* The triple a finding was emitted for.
TripleOf(f) ==
    CHOOSE t \in Combos : VarOf(t) = f.variable /\ MemberOf(t) = f.member

\* The modules whose range [start, end) holds the address.
Holders(addr) ==
    {k \in 1..Len(modules) : modules[k].start <= addr /\ addr < modules[k].end}

\* The member list the Field Enumerator is to return for a layout: the base
\* record type's members, then the prefixed members of each of the two record
\* types the layout has.
ExpectedMembers(p) ==
    (IF has_type(p, "file_operations") THEN p["file_operations"] ELSE <<>>)
    \o (IF has_type(p, "seq_operations")
        THEN Prefixed("seq_ops", p["seq_operations"]) ELSE <<>>)
    \o (IF has_type(p, "file_operations")
        THEN Prefixed("seq_fops", p["file_operations"]) ELSE <<>>)

\* Nothing in the image but expected absences and unresolvable pointers: the
\* layout has the record type the member list starts from and no read faults.
OnlyExpected ==
    /\ has_type(profile, "file_operations")
    /\ \A s \in GlobalVars : \A p \in AllPaths : mem[s][p] # Fault

(********************************* claims **********************************)

\* C1: once the scan has ended, for every check, global symbol and field the
\* scan has looked at, a Finding was emitted for that symbol and field if and
\* only if the field exists on the struct instance and its pointer is non-null.
C1_FindingIffNonNull ==
    ScanEnded =>
        \A t \in Combos :
            CellOf(t) # Unread => (Emitted(t) <=> NonNull(CellOf(t)))

C3_FindingCarriesResolution ==
    /\ Len(findings) = Len(results)
    /\ \A k \in 1..Len(results) :
           findings[k] = [variable |-> results[k].variable,
                          member |-> results[k].member,
                          func |-> results[k].func,
                          location |-> results[k].module]

\* C4: once the scan has ended, every (check, symbol, field) combination has
\* been visited exactly once, and of any two Findings the earlier one has the
\* lexicographically smaller (check, symbol, field) index.
C4_VisitedOnceInOrder ==
    ScanEnded =>
        /\ \A t \in Combos : Visits(t) = 1
        /\ \A j, k \in 1..Len(findings) :
               j < k => Before(TripleOf(findings[j]), TripleOf(findings[k]))

\* C5: a second scan over the same image, layout and module list builds the
\* same checks as the first and ends as the first did: the same Findings in the
\* same order, the same outcome, the same members visited.
C5_RescanIdentical ==
    /\ (run = 2 /\ pc # "start") => checks = prev.checks
    /\ (run = 2 /\ ScanEnded) =>
           /\ findings = prev.findings
           /\ err = prev.err
           /\ visited = prev.visited

\* C5 witness: the second scan has ended after check_members yielded a
\* non-null pointer, as the first did.
C5_Witness ==
    /\ run = 2 /\ ScanEnded
    /\ Len(results) > 0
    /\ Len(prev.visited) > 1

\* C6: a global symbol the kernel lacks ends the scan with no SymbolNotFound
\* error and has no Finding, and once the scan has ended every symbol of every
\* check has been looked up.
C6_MissingSymbolSkipped ==
    (\E s \in GlobalVars : symtab[s] \in {"missing_none", "missing_raise"}) =>
        /\ err # "SymbolNotFound"
        /\ \A k \in 1..Len(findings) :
               symtab[findings[k].variable] = "present"
        /\ ScanEnded => \A s \in GlobalVars : symtab[s] # "unread"

\* C7: a member whose read fails with ReadError ends the scan with no error
\* and has no Finding, and once the scan has ended every combination after it
\* has been visited as well.
C7_ReadFaultRecovered ==
    (\E s \in GlobalVars : \E p \in AllPaths : mem[s][p] = Fault) =>
        /\ err = "none"
        /\ \A t \in Combos : CellOf(t) = Fault => ~Emitted(t)
        /\ ScanEnded => \A t \in Combos : Visits(t) = 1

\* C8: for every layout CreateChecks returns without failing, and the member
\* list of each check is the base record type's members, then the seq_ops.
\* members if the layout has seq_operations, then the seq_fops. members if it
\* has file_operations, in this order with nothing dropped.
C8_MemberListNeverFails ==
    pc # "start" =>
        /\ err # "TypeNotFound"
        /\ Len(checks) = 2
        /\ \A c \in 1..Len(checks) : checks[c].members = ExpectedMembers(profile)

\* C9: over an image whose only irregularities are missing symbols, absent
\* members, null pointers and unresolvable pointers the scan never ends with an
\* error, and a pointer into no module is emitted as a Finding with "Unknown".
C9_ScanCompletes ==
    OnlyExpected =>
        /\ pc # "error"
        /\ \A k \in 1..Len(results) :
               results[k].module = "Unknown" =>
                   /\ k <= Len(findings)
                   /\ findings[k].location = "Unknown"

\* C10: at every point of a scan find_module has been called exactly for the
\* tuples check_members has yielded, once each with the tuple's address, and no
\* step changes the struct layout or the module list.
C10_LookupPerResult ==
    /\ [](lookups = [k \in 1..Len(results) |-> results[k].func])
    /\ [][profile' = profile /\ modules' = modules]_vars

\* C10 witness: find_module has been called once, after members that were
\* skipped without a call.
C10_Witness ==
    /\ Len(lookups) = 1
    /\ Len(results) = 1
    /\ Len(visited) > 1

====
